---- MODULE Spec2Model ----
(***************************************************************************)
(* Model of deltasigma/_bplogsmooth.py: bplogsmooth(X, tbin, f0), the      *)
(* band-pass logarithmic smoothing of an FFT.  The function is modelled    *)
(* as a sequential program: one action per block of the function body,     *)
(* the two while loops one iteration per step.                             *)
(*                                                                         *)
(* X enters the bin geometry only through its length N = X.shape[0].       *)
(* f0 is the rational f0num / F0Den; every real-valued expression of the   *)
(* source (f0*N, n*1.1, m + n/2., the centre frequencies f) is computed    *)
(* exactly on numerator / denominator pairs.                               *)
(***************************************************************************)
EXTENDS Integers, Sequences, FiniteSets

VARIABLES N, tbin, f0num, pc, bin0, n, m, usb1, usb2, lsb1, lsb2,
          startbin, stopbin, f, p

vars == <<N, tbin, f0num, pc, bin0, n, m, usb1, usb2, lsb1, lsb2,
          startbin, stopbin, f, p>>

(* ------------------------------- bounds -------------------------------- *)

\* short spectra: every length 2..MaxN, every bin index of X as tbin
MaxN == 40
\* one long spectrum, long enough for the step n to reach its cap
BigN == 55000
\* for the long spectrum, tbin ranges over bin0 .. bin0 + TbinSpan
TbinSpan == 9
\* f0 ranges over the multiples of 1/F0Den inside [0, 0.5)
F0Den == 16

(* ------------------------- program constants --------------------------- *)

\* n = 8, the initial step of both walks
n0 == 8
\* 2**10, the cap of the step
nCap == 1024

(* ------------------------------ helpers -------------------------------- *)

Abs(x) == IF x < 0 THEN -x ELSE x

Min(a, b) == IF a < b THEN a ELSE b

\* ceil(a / b) for b > 0
CeilDiv(a, b) == -((-a) \div b)

\* mround(num / den), den > 0: nearest integer, halves away from zero
mround(num, den) ==
  IF num >= 0 THEN (2 * num + den) \div (2 * den)
              ELSE -((2 * (-num) + den) \div (2 * den))

\* np.arange(start, stop, step), step # 0
arange(start, stop, step) ==
  LET len == IF step > 0 THEN CeilDiv(stop - start, step)
                         ELSE CeilDiv(start - stop, -step)
      cnt == IF len > 0 THEN len ELSE 0
  IN  [i \in 1..cnt |-> start + (i - 1) * step]

\* elementwise a + k
AddAll(a, k) == [i \in 1..Len(a) |-> a[i] + k]

\* a[::-1]
Reverse(a) == [i \in 1..Len(a) |-> a[Len(a) + 1 - i]]

\* a[-1] of a non-empty array
Last(a) == a[Len(a)]

\* a[1:]
Rest(a) == IF Len(a) = 0 THEN <<>> ELSE Tail(a)

Grow_NoCap(k) == mround(11 * k, 10)

Grow_Truncating(k) == Min(11 * k, 10 * nCap) \div 10

\* mround(min(n*1.1, 2**10)): the next step of a walk
Grow(k) == mround(Min(11 * k, 10 * nCap), 10)

\* number of samples in the Python slice X[lo:hi] of an array of length len
SliceIndex(i, len) ==
  IF i < 0 THEN (IF i + len < 0 THEN 0 ELSE i + len)
           ELSE (IF i > len THEN len ELSE i)

SliceLen(lo, hi, len) ==
  LET a == SliceIndex(lo, len)
      b == SliceIndex(hi, len)
  IN  IF b > a THEN b - a ELSE 0

(* ------------------------------- inputs -------------------------------- *)

F0Nums == {k \in 0..F0Den : 2 * k < F0Den}

Inputs ==
  { <<len, t, k>> \in (2..MaxN) \X (0..MaxN) \X F0Nums : t < len }
  \cup
  { <<BigN, mround(k * BigN, F0Den) + d, k>> : d \in 0..TbinSpan, k \in F0Nums }

(* ------------------------------- program ------------------------------- *)

Init ==
  /\ \E in \in Inputs : /\ N = in[1]
                        /\ tbin = in[2]
                        /\ f0num = in[3]
  /\ pc = "start"
  /\ bin0 = 0
  /\ n = 0
  /\ m = 0
  /\ usb1 = <<>>
  /\ usb2 = <<>>
  /\ lsb1 = <<>>
  /\ lsb2 = <<>>
  /\ startbin = <<>>
  /\ stopbin = <<>>
  /\ f = <<>>
  /\ p = <<>>

UpperSideband_Geq(t, b) == t >= b

\* the test of "assert tbin > bin0"
UpperSideband(t, b) == t > b

\* lines 41-48: N, N2, n = 8, bin0, the assertion
CheckPrecondition ==
  /\ pc = "start"
  /\ bin0' = mround(f0num * N, F0Den)
  /\ n' = n0
  /\ pc' = IF UpperSideband(tbin, bin0') THEN "usb_init" ELSE "AssertionError"
  /\ UNCHANGED <<N, tbin, f0num, m, usb1, usb2, lsb1, lsb2,
                 startbin, stopbin, f, p>>

N2 == N \div 2

bin1 == ((tbin - bin0) % n0) + bin0

bind == bin1 - bin0

\* lines 49-54: bin1, bind, the first entries of usb1, m
UsbInit ==
  /\ pc = "usb_init"
  /\ usb1' = arange(bin1, tbin + 1, n) \o arange(tbin + 3, tbin + bind + 1, 8)
  /\ m' = Last(usb1') + n
  /\ pc' = "usb_loop"
  /\ UNCHANGED <<N, tbin, f0num, bin0, n, usb2, lsb1, lsb2,
                 startbin, stopbin, f, p>>

\* "while m + n/2. < N/2."
UsbCond == 2 * m + n < N

\* lines 55-58: one iteration of the upper walk
UsbLoop ==
  /\ pc = "usb_loop"
  /\ UsbCond
  /\ usb1' = Append(usb1, m)
  /\ n' = Grow(n)
  /\ m' = m + n'
  /\ UNCHANGED <<N, tbin, f0num, pc, bin0, usb2, lsb1, lsb2,
                 startbin, stopbin, f, p>>

MkUsb2_FullLength(u) == AddAll(Rest(u), -1) \o <<N>>

\* np.concatenate((usb1[1:] - 1, np.array((N2,))))
MkUsb2(u) == AddAll(Rest(u), -1) \o <<N2>>

\* lines 55, 59, 61: the upper walk ends; usb2; n = 8 again
UsbExit ==
  /\ pc = "usb_loop"
  /\ ~UsbCond
  /\ usb2' = MkUsb2(usb1)
  /\ n' = n0
  /\ pc' = "lsb_init"
  /\ UNCHANGED <<N, tbin, f0num, bin0, m, usb1, lsb1, lsb2,
                 startbin, stopbin, f, p>>

MkLsb2_NoShift == arange(bin1, bin1 - 2 * bind + 1, -n)

\* np.arange(bin1, bin1 - 2*bind + 1, -n) - 1
MkLsb2 == AddAll(arange(bin1, bin1 - 2 * bind + 1, -n), -1)

\* lines 62-63: the first entries of lsb2, m; lsb2[-1] of an empty array
\* raises IndexError
LsbInit ==
  /\ pc = "lsb_init"
  /\ lsb2' = MkLsb2
  /\ IF Len(lsb2') = 0
       THEN /\ pc' = "IndexError"
            /\ m' = m
       ELSE /\ pc' = "lsb_loop"
            /\ m' = Last(lsb2') - n
  /\ UNCHANGED <<N, tbin, f0num, bin0, n, usb1, usb2, lsb1,
                 startbin, stopbin, f, p>>

\* "while m - n/2. > 1"
LsbCond == 2 * m - n > 2

\* lines 64-67: one iteration of the lower walk
LsbLoop ==
  /\ pc = "lsb_loop"
  /\ LsbCond
  /\ lsb2' = Append(lsb2, m)
  /\ n' = Grow(n)
  /\ m' = m - n'
  /\ UNCHANGED <<N, tbin, f0num, pc, bin0, usb1, usb2, lsb1,
                 startbin, stopbin, f, p>>

MkLsb1_NoShift(l) == Rest(l) \o <<1>>

\* np.concatenate((lsb2[1:] + 1, np.ones((1,))))
MkLsb1(l) == AddAll(Rest(l), 1) \o <<1>>

MkStartbin_NoReverse(l1, u1) == AddAll(l1 \o u1, -1)

\* np.concatenate((lsb1[::-1], usb1)) - 1
MkStartbin(l1, u1) == AddAll(Reverse(l1) \o u1, -1)

MkStopbin_OneBased(l2, u2) == Reverse(l2) \o u2

\* np.concatenate((lsb2[::-1], usb2)) - 1
MkStopbin(l2, u2) == AddAll(Reverse(l2) \o u2, -1)

\* lines 64, 68-71: the lower walk ends; lsb1, startbin, stopbin
LsbExit ==
  /\ pc = "lsb_loop"
  /\ ~LsbCond
  /\ lsb1' = MkLsb1(lsb2)
  /\ startbin' = MkStartbin(lsb1', usb1)
  /\ stopbin' = MkStopbin(lsb2, usb2)
  /\ pc' = "output"
  /\ UNCHANGED <<N, tbin, f0num, bin0, n, m, usb1, usb2, lsb2, f, p>>

\* f = ((startbin + stopbin)/2.)/N - f0, as numerators over FDen
FDen == 2 * N * F0Den

MkF(sa, so) == [i \in 1..Len(sa) |-> (sa[i] + so[i]) * F0Den - 2 * N * f0num]

\* p = np.zeros(f.shape), then one entry per i in range(f.shape[0]); the
\* entry recorded is the number of samples of X[startbin[i]:stopbin[i] + 1]
MkP(ff, sa, so) == [i \in 1..Len(ff) |-> SliceLen(sa[i], so[i] + 1, N)]

\* lines 73-81: f and p; return
Output ==
  /\ pc = "output"
  /\ f' = MkF(startbin, stopbin)
  /\ p' = MkP(f', startbin, stopbin)
  /\ pc' = "done"
  /\ UNCHANGED <<N, tbin, f0num, bin0, n, m, usb1, usb2, lsb1, lsb2,
                 startbin, stopbin>>

Next ==
  \/ CheckPrecondition
  \/ UsbInit
  \/ UsbLoop
  \/ UsbExit
  \/ LsbInit
  \/ LsbLoop
  \/ LsbExit
  \/ Output

Spec == Init /\ [][Next]_vars

\* the function body runs to its end: every enabled step is eventually taken
FairSpec == Spec /\ WF_vars(Next)

(* ------------------------------- claims -------------------------------- *)

Returned == pc = "done"

NBins == Len(startbin)

\* number of lower-sideband bins: they come first in the output
NLower == Len(lsb2)

Width(i) == stopbin[i] - startbin[i] + 1

\* C1: once the precondition has been evaluated, bin0 is f0*N rounded to the
\* nearest integer, and a call with tbin <= bin0 has failed with the
\* assertion and has produced no bins and no (f, p).
C1_PreconditionViolation ==
  pc # "start" =>
    /\ Abs(2 * f0num * N - 2 * bin0 * F0Den) <= F0Den
    /\ tbin <= bin0 =>
         /\ pc = "AssertionError"
         /\ startbin = <<>> /\ stopbin = <<>> /\ f = <<>> /\ p = <<>>

\* the call failed on the boundary case tbin = round(f0*N), with a tone bin
\* above 0
C1_Witness == pc = "AssertionError" /\ tbin = bin0 /\ bin0 > 0

\* C2: a call that satisfies tbin > round(f0*N) never fails: no failure
\* other than the assertion exists.
C2_OnlyPreconditionFails ==
  (pc # "start" /\ tbin > bin0) => pc # "IndexError"

\* C3: every bin of a returned result has startbin[i] <= stopbin[i].
C3_NonEmptyBins ==
  Returned => \A i \in 1..NBins : startbin[i] <= stopbin[i]

\* C4: in output order each bin starts right after the previous one stops,
\* inside each sideband and at the junction of the two sidebands.
C4_Contiguous ==
  pc \in {"output", "done"} =>
    \A i \in 1..(NBins - 1) : stopbin[i] + 1 = startbin[i + 1]

\* a result with several bins in each sideband, both walks having iterated
C4_Witness ==
  Returned /\ NLower >= 3 /\ Len(usb1) >= 3 /\ bind >= 5

\* C5: the first bin starts at index 0 and the last bin stops at N2 - 1.
C5_EndBins ==
  Returned => /\ NBins >= 2
              /\ startbin[1] = 0
              /\ stopbin[NBins] = N2 - 1

\* a result of an odd-length spectrum whose end bins are not the
\* tone-adjacent ones
C5_Witness == Returned /\ N % 2 = 1 /\ NLower >= 2 /\ Len(usb1) >= 2

\* the bins that hold sample index j
BinsOf(j) == {i \in 1..NBins : startbin[i] <= j /\ j <= stopbin[i]}

StepGrows ==
  /\ n >= n0
  /\ n' >= n
  /\ n' <= nCap
  /\ \/ 11 * n < 10 * nCap /\ Abs(10 * n' - 11 * n) <= 5
     \/ 11 * n >= 10 * nCap /\ n' = nCap

\* C9: every iteration of the upper walk moves m up by the new step, every
\* iteration of the lower walk moves m down by it, the step growing as
\* above; and each walk ends.
C9_WalksTerminate ==
  /\ [][(pc = "usb_loop" /\ pc' = "usb_loop") =>
          (StepGrows /\ m' = m + n' /\ m' > m /\ 2 * m + n < N)]_vars
  /\ [][(pc = "lsb_loop" /\ pc' = "lsb_loop") =>
          (StepGrows /\ m' = m - n' /\ m' < m /\ 2 * m - n > 2)]_vars
  /\ (pc = "usb_loop") ~> (pc = "lsb_init")
  /\ (pc = "lsb_loop") ~> (pc = "output")

\* the lower walk has ended after its step reached the cap, the upper walk
\* having appended entries too
C9_Witness == pc = "output" /\ n = nCap /\ Len(usb1) >= 40

\* C10 as stated: the last lower bin and the first upper bin are bind wide.
C10_AdjacentWidthIsBind ==
  Returned => /\ Width(NLower) = bind
              /\ Width(NLower + 1) = bind

\* C10 amended: the last lower bin stops just below bin1 = bin0 + bind and
\* the first upper bin starts at bin1; unless it is an end bin, the last
\* lower bin is 8 wide and the first upper bin is 8 wide, or 3 wide when
\* tbin = bin1 and bind >= 3.
C10_AdjacentAtBin1 ==
  Returned =>
    /\ bin1 = bin0 + ((tbin - bin0) % 8)
    /\ stopbin[NLower] = bin1 - 2
    /\ startbin[NLower + 1] = bin1 - 1
    /\ NLower >= 2 => Width(NLower) = 8
    /\ NLower + 1 < NBins =>
         Width(NLower + 1) = (IF tbin = bin1 /\ bind >= 3 THEN 3 ELSE 8)

\* a result whose tone-adjacent bins are not end bins, with bind = 5
C10_Witness ==
  Returned /\ bind = 5 /\ NLower >= 2 /\ Len(usb1) >= 2 /\ tbin > bin1

====
